---- MODULE Spec2Model ----
(***************************************************************************)
(* Model of sample_size_calculator_packages/core.py: the class            *)
(* SampleSizeCalculator with calculate_sample_size_relative,              *)
(* calculate_sample_size_absolute, sample_size_plot and _validate_inputs. *)
(*                                                                         *)
(* Python floats are modelled as exact rationals <<num, den>> (den > 0,   *)
(* lowest terms).  The two irrational primitives, scipy's norm.ppf and    *)
(* math.sqrt, are modelled as fixed-point functions with two decimals.    *)
(* An optional argument is a sequence of length 0 (None / omitted) or 1.  *)
(***************************************************************************)
EXTENDS Integers, Sequences, FiniteSets, TLC

VARIABLES p1, mde, mde_list, relative, kwargs, pc, outcome, fig

vars == <<p1, mde, mde_list, relative, kwargs, pc, outcome, fig>>

-----------------------------------------------------------------------------
(* Exact rational arithmetic standing for Python float arithmetic.         *)

Abs(i) == IF i < 0 THEN -i ELSE i

RECURSIVE GCD(_, _)
GCD(a, b) == IF b = 0 THEN a ELSE GCD(b, a % b)

Norm(n, d) ==
    LET g == GCD(Abs(n), Abs(d))
        s == IF d < 0 THEN -1 ELSE 1
    IN  <<s * (n \div g), s * (d \div g)>>

Rat(n, d) == Norm(n, d)
Whole(i) == <<i, 1>>

RatAdd(a, b) == Norm(a[1] * b[2] + b[1] * a[2], a[2] * b[2])
RatNeg(a) == <<-a[1], a[2]>>
RatSub(a, b) == RatAdd(a, RatNeg(b))

\* a * b, cancelling across the two fractions before multiplying
RatMul(a, b) ==
    LET g1 == GCD(Abs(a[1]), b[2])
        g2 == GCD(Abs(b[1]), a[2])
    IN  IF a[1] = 0 \/ b[1] = 0 THEN <<0, 1>>
        ELSE <<(a[1] \div g1) * (b[1] \div g2), (a[2] \div g2) * (b[2] \div g1)>>

\* a / b for b # 0 (Python raises ZeroDivisionError for b = 0; callers test it)
RatDiv(a, b) ==
    RatMul(a, IF b[1] < 0 THEN <<-b[2], -b[1]>> ELSE <<b[2], b[1]>>)

RatLt(a, b) == a[1] * b[2] < b[1] * a[2]
RatLe(a, b) == a[1] * b[2] <= b[1] * a[2]
IsZero(a) == a[1] = 0

\* int(n) in place of math.ceil(n): truncation
Truncate(a) == a[1] \div a[2]

\* math.ceil
Ceil(a) == (a[1] \div a[2]) + (IF a[1] % a[2] = 0 THEN 0 ELSE 1)

-----------------------------------------------------------------------------
(* math.sqrt, to two decimals: floor(sqrt(x) * 100) / 100.                 *)

RECURSIVE ISqrtIn(_, _, _)
ISqrtIn(v, lo, hi) ==
    IF lo >= hi THEN lo
    ELSE LET mid == (lo + hi + 1) \div 2
         IN  IF mid * mid <= v THEN ISqrtIn(v, mid, hi) ELSE ISqrtIn(v, lo, mid - 1)

Sqrt(x) == Rat(ISqrtIn((x[1] * 10000) \div x[2], 0, 1000), 100)

-----------------------------------------------------------------------------
(* scipy.stats.norm.ppf, the standard normal quantile function, to two     *)
(* decimals: linear interpolation in a table of quantiles, odd about 1/2.  *)
(* Knots are <<probability * 1000, z * 100>>.                              *)

PpfKnots ==
    << <<500, 0>>, <<550, 13>>, <<600, 25>>, <<650, 39>>, <<700, 52>>,
       <<750, 67>>, <<800, 84>>, <<850, 104>>, <<900, 128>>, <<925, 144>>,
       <<950, 164>>, <<975, 196>>, <<990, 233>>, <<995, 258>>, <<999, 309>> >>

\* z * 100 for a probability q >= 1/2
PpfUpper(q) ==
    LET last == PpfKnots[Len(PpfKnots)]
    IN  IF q[1] * 1000 >= last[1] * q[2] THEN last[2]
        ELSE LET i  == CHOOSE j \in 1..(Len(PpfKnots) - 1) :
                           /\ PpfKnots[j][1] * q[2] <= q[1] * 1000
                           /\ q[1] * 1000 < PpfKnots[j + 1][1] * q[2]
                 lo == PpfKnots[i]
                 hi == PpfKnots[i + 1]
             IN  lo[2] + ((hi[2] - lo[2]) * (q[1] * 1000 - lo[1] * q[2]))
                           \div ((hi[1] - lo[1]) * q[2])

NormPpf(q) ==
    IF RatLe(Rat(1, 2), q) THEN Rat(PpfUpper(q), 100)
    ELSE Rat(-PpfUpper(RatSub(Whole(1), q)), 100)

-----------------------------------------------------------------------------
(* Optional arguments and the defaults set by __init__.                    *)

None == <<>>
Some(v) == <<v>>
OrDefault(opt, dflt) == IF Len(opt) = 0 THEN dflt ELSE opt[1]

default_alpha == Rat(5, 100)
default_power == Rat(8, 10)
default_two_tailed == TRUE
default_bonferroni == 1
default_split_ratio == Rat(5, 10)

-----------------------------------------------------------------------------
(* Outcomes of a call: a returned value or a raised exception.             *)

Return(v) == [kind |-> "ok", msg |-> "", value |-> v]
Raise(k, m) == [kind |-> k, msg |-> m, value |-> 0]
NoOutcome == [kind |-> "none", msg |-> "", value |-> 0]

\* 0 < x < 1
InUnit(x) == RatLt(Whole(0), x) /\ RatLt(x, Whole(1))

\* _validate_inputs with -1 <= mde <= 1 in place of -1 < mde < 1
ValidateInputsClosedMde(p, m, alpha, power, bonferroni_correction, split_ratio) ==
    IF ~InUnit(p) THEN "p1"
    ELSE IF ~(RatLe(Whole(-1), m) /\ RatLe(m, Whole(1))) THEN "MDE"
    ELSE IF ~InUnit(alpha) THEN "alpha"
    ELSE IF ~InUnit(power) THEN "power"
    ELSE IF bonferroni_correction < 1 THEN "bonferroni_correction"
    ELSE IF ~InUnit(split_ratio) THEN "split_ratio"
    ELSE ""

\* _validate_inputs: the message of the first ValueError raised, "" if none
ValidateInputs(p, m, alpha, power, bonferroni_correction, split_ratio) ==
    IF ~InUnit(p) THEN "p1"
    ELSE IF ~(RatLt(Whole(-1), m) /\ RatLt(m, Whole(1))) THEN "MDE"
    ELSE IF ~InUnit(alpha) THEN "alpha"
    ELSE IF ~InUnit(power) THEN "power"
    ELSE IF bonferroni_correction < 1 THEN "bonferroni_correction"
    ELSE IF ~InUnit(split_ratio) THEN "split_ratio"
    ELSE ""

\* p2 = p1 * (1 + relative_mde)
TreatmentRate(p, relative_mde) == RatMul(p, RatAdd(Whole(1), relative_mde))

\* alpha * bonferroni_correction in place of alpha / bonferroni_correction
AdjustedAlphaTimes(alpha, bonferroni_correction) ==
    RatMul(alpha, Whole(bonferroni_correction))

\* adjusted_alpha = alpha / bonferroni_correction
AdjustedAlpha(alpha, bonferroni_correction) ==
    RatDiv(alpha, Whole(bonferroni_correction))

\* z_alpha
ZAlpha(alpha, two_tailed, bonferroni_correction) ==
    LET adjusted_alpha == AdjustedAlpha(alpha, bonferroni_correction)
    IN  IF two_tailed
        THEN NormPpf(RatSub(Whole(1), RatDiv(adjusted_alpha, Whole(2))))
        ELSE NormPpf(RatSub(Whole(1), adjusted_alpha))

\* z_power
ZPower(power) == NormPpf(power)

\* z_alpha * sqrt(2 * p_bar * (1 - p_bar)) + z_power * sqrt(p1*(1-p1) + p2*(1-p2))
CriticalTerm(p, p2, z_alpha, z_power) ==
    LET p_bar == RatDiv(RatAdd(p, p2), Whole(2))
        null_var == RatMul(RatMul(Whole(2), p_bar), RatSub(Whole(1), p_bar))
        alt_var == RatAdd(RatMul(p, RatSub(Whole(1), p)),
                          RatMul(p2, RatSub(Whole(1), p2)))
    IN  RatAdd(RatMul(z_alpha, Sqrt(null_var)), RatMul(z_power, Sqrt(alt_var)))

\* (p2 - p1) ** 2
EffectSquared(p, p2) == LET d == RatSub(p2, p) IN RatMul(d, d)

\* ... / ((p2 + p1) ** 2) in place of ... / ((p2 - p1) ** 2)
EqualGroupsNSumOfRates(p, p2, z_alpha, z_power) ==
    LET t == CriticalTerm(p, p2, z_alpha, z_power)
        d == RatAdd(p2, p)
    IN  RatDiv(RatMul(t, t), RatMul(d, d))

\* n for equal groups; requires p2 # p1
EqualGroupsN(p, p2, z_alpha, z_power) ==
    LET t == CriticalTerm(p, p2, z_alpha, z_power)
    IN  RatDiv(RatMul(t, t), EffectSquared(p, p2))

\* k = (1 - split_ratio) / split_ratio; n * (1 + k) / (4 * k)
Rescale(n, split_ratio) ==
    LET k == RatDiv(RatSub(Whole(1), split_ratio), split_ratio)
    IN  RatDiv(RatMul(n, RatAdd(Whole(1), k)), RatMul(Whole(4), k))

\* the correction for unequal groups
SplitAdjust(n, split_ratio) ==
    IF split_ratio # Rat(5, 10) THEN Rescale(n, split_ratio) ELSE n

\* the float n that is passed to math.ceil, for validated arguments with p2 # p1
RealN(p, relative_mde, alpha, power, two_tailed, bonferroni_correction, split_ratio) ==
    LET p2 == TreatmentRate(p, relative_mde)
    IN  SplitAdjust(EqualGroupsN(p, p2,
                        ZAlpha(alpha, two_tailed, bonferroni_correction), ZPower(power)),
                    split_ratio)

Alpha(kw) == OrDefault(kw.alpha, default_alpha)
Power(kw) == OrDefault(kw.power, default_power)
TwoTailed(kw) == OrDefault(kw.two_tailed, default_two_tailed)
Bonferroni(kw) == OrDefault(kw.bonferroni_correction, default_bonferroni)
SplitRatio(kw) == OrDefault(kw.split_ratio, default_split_ratio)

\* calculate_sample_size_relative
CalculateSampleSizeRelative(p, relative_mde, kw) ==
    LET v == ValidateInputs(p, relative_mde, Alpha(kw), Power(kw), Bonferroni(kw),
                            SplitRatio(kw))
        p2 == TreatmentRate(p, relative_mde)
    IN  IF v # "" THEN Raise("ValueError", v)
        ELSE IF RatLe(Whole(1), p2) THEN Raise("ValueError", "p2")
        ELSE IF IsZero(EffectSquared(p, p2)) THEN Raise("ZeroDivisionError", "")
        ELSE Return(Ceil(RealN(p, relative_mde, Alpha(kw), Power(kw), TwoTailed(kw),
                                Bonferroni(kw), SplitRatio(kw))))

\* calculate_sample_size_absolute that passes absolute_mde on unconverted
CalculateSampleSizeAbsoluteUnconverted(p, absolute_mde, kw) ==
    CalculateSampleSizeRelative(p, absolute_mde, kw)

\* calculate_sample_size_absolute
CalculateSampleSizeAbsolute(p, absolute_mde, kw) ==
    IF IsZero(p) THEN Raise("ZeroDivisionError", "")
    ELSE CalculateSampleSizeRelative(p, RatDiv(absolute_mde, p), kw)

-----------------------------------------------------------------------------
(* sample_size_plot                                                        *)

\* calculate_fn
CalculateFn(rel, p, m, kw) ==
    IF rel THEN CalculateSampleSizeRelative(p, m, kw)
    ELSE CalculateSampleSizeAbsolute(p, m, kw)

\* a list comprehension that swallows the exception and skips the element
RECURSIVE SampleSizesSkipping(_, _, _, _)
SampleSizesSkipping(rel, p, list, kw) ==
    IF Len(list) = 0 THEN [kind |-> "ok", msg |-> "", sizes |-> <<>>]
    ELSE LET r == CalculateFn(rel, p, Head(list), kw)
             rest == SampleSizesSkipping(rel, p, Tail(list), kw)
         IN  IF r.kind # "ok" THEN rest
             ELSE [kind |-> "ok", msg |-> "", sizes |-> <<r.value>> \o rest.sizes]

\* sample_sizes = [calculate_fn(p1, mde, **kwargs) for mde in mde_list]:
\* the list, or the first exception raised while building it
RECURSIVE SampleSizes(_, _, _, _)
SampleSizes(rel, p, list, kw) ==
    IF Len(list) = 0 THEN [kind |-> "ok", msg |-> "", sizes |-> <<>>]
    ELSE LET r == CalculateFn(rel, p, Head(list), kw)
         IN  IF r.kind # "ok" THEN [kind |-> r.kind, msg |-> r.msg, sizes |-> <<>>]
             ELSE LET rest == SampleSizes(rel, p, Tail(list), kw)
                  IN  IF rest.kind # "ok" THEN rest
                      ELSE [kind |-> "ok", msg |-> "",
                            sizes |-> <<r.value>> \o rest.sizes]

\* y of the 'Total sample' trace: size * (1 + (1 - split_ratio)/split_ratio)
TotalSample(size, split_ratio) ==
    RatMul(Whole(size),
           RatAdd(Whole(1), RatDiv(RatSub(Whole(1), split_ratio), split_ratio)))

NoFig == [shown |-> FALSE, x_title |-> "", x |-> <<>>, per_variant |-> <<>>,
          total |-> <<>>, title |-> <<>>]

\* the figure built and shown from a complete list of sample sizes
Figure(rel, p, list, sizes, kw) ==
    [shown |-> TRUE,
     x_title |-> IF rel THEN "Relative MDE" ELSE "Absolute MDE",
     x |-> list,
     per_variant |-> sizes,
     total |-> [i \in 1..Len(sizes) |-> TotalSample(sizes[i], SplitRatio(kw))],
     title |-> <<p, Power(kw), Alpha(kw)>>]

-----------------------------------------------------------------------------
(* Inputs.                                                                 *)

MaxBonferroni == 3
MaxLen == 2

P1Values == {Rat(0, 1), Rat(1, 10), Rat(1, 2), Rat(9, 10), Rat(1, 1)}
MdeValues == {Rat(-1, 1), Rat(-1, 2), Rat(-1, 5), Rat(-3, 20), Rat(-1, 10), Rat(0, 1),
              Rat(1, 10), Rat(1, 5), Rat(1, 2), Rat(1, 1)}
AlphaArgs == {None, Some(Rat(0, 1)), Some(Rat(1, 10)), Some(Rat(9, 10)), Some(Rat(1, 1))}
PowerArgs == {None, Some(Rat(0, 1)), Some(Rat(1, 5)), Some(Rat(1, 2)), Some(Rat(1, 1))}
TwoTailedArgs == {None, Some(FALSE)}
BonferroniArgs == {None} \cup {Some(c) : c \in 0..MaxBonferroni}
SplitArgs == {None, Some(Rat(0, 1)), Some(Rat(3, 10)), Some(Rat(7, 10)), Some(Rat(1, 1))}

KwArgs == [alpha : AlphaArgs, power : PowerArgs, two_tailed : TwoTailedArgs,
           bonferroni_correction : BonferroniArgs, split_ratio : SplitArgs]

NoKwArgs == [alpha |-> None, power |-> None, two_tailed |-> None,
             bonferroni_correction |-> None, split_ratio |-> None]

PlotP1Values == {Rat(0, 1), Rat(1, 10), Rat(1, 2)}
PlotMdeValues == {Rat(-1, 5), Rat(0, 1), Rat(1, 10), Rat(1, 5), Rat(1, 1)}
PlotKwArgs == {[NoKwArgs EXCEPT !.split_ratio = s] : s \in {None, Some(Rat(3, 10))}}

MdeLists == UNION {[1..n -> PlotMdeValues] : n \in 0..MaxLen}

\* a single estimate: every combination of arguments, valid or not
InitEstimate ==
    /\ p1 \in P1Values
    /\ mde \in MdeValues
    /\ kwargs \in KwArgs
    /\ mde_list = <<>>
    /\ relative = TRUE

\* a chart: lists of MDE values under either convention
InitPlot ==
    /\ p1 \in PlotP1Values
    /\ mde_list \in MdeLists
    /\ relative \in BOOLEAN
    /\ kwargs \in PlotKwArgs
    /\ mde = Rat(1, 10)

Init ==
    /\ InitEstimate \/ InitPlot
    /\ pc = "ready"
    /\ outcome = NoOutcome
    /\ fig = NoFig

Relative ==
    /\ pc = "ready"
    /\ outcome' = CalculateSampleSizeRelative(p1, mde, kwargs)
    /\ pc' = "relative"
    /\ UNCHANGED <<p1, mde, mde_list, relative, kwargs, fig>>

Absolute ==
    /\ pc = "ready"
    /\ outcome' = CalculateSampleSizeAbsolute(p1, mde, kwargs)
    /\ pc' = "absolute"
    /\ UNCHANGED <<p1, mde, mde_list, relative, kwargs, fig>>

SampleSizePlot ==
    /\ pc = "ready"
    /\ LET s == SampleSizes(relative, p1, mde_list, kwargs)
       IN  IF s.kind # "ok"
           THEN /\ outcome' = Raise(s.kind, s.msg)
                /\ fig' = NoFig
           ELSE /\ outcome' = Return(0)
                /\ fig' = Figure(relative, p1, mde_list, s.sizes, kwargs)
    /\ pc' = "plot"
    /\ UNCHANGED <<p1, mde, mde_list, relative, kwargs>>

Next == Relative \/ Absolute \/ SampleSizePlot

Spec == Init /\ [][Next]_vars

-----------------------------------------------------------------------------
(* Properties.                                                             *)

\* the call made on the state's arguments with one keyword argument replaced
WithBonferroni(c) ==
    CalculateSampleSizeRelative(p1, mde, [kwargs EXCEPT !.bonferroni_correction = Some(c)])
WithSplit(t) ==
    CalculateSampleSizeRelative(p1, mde, [kwargs EXCEPT !.split_ratio = Some(t)])
WithMde(m) == CalculateSampleSizeRelative(p1, m, kwargs)

Returned == pc = "relative" /\ outcome.kind = "ok"

\* the six documented input constraints and the derived one on p2
SixConstraintsHold ==
    /\ RatLt(Whole(0), p1) /\ RatLt(p1, Whole(1))
    /\ RatLt(Whole(-1), mde) /\ RatLt(mde, Whole(1))
    /\ RatLt(Whole(0), Alpha(kwargs)) /\ RatLt(Alpha(kwargs), Whole(1))
    /\ RatLt(Whole(0), Power(kwargs)) /\ RatLt(Power(kwargs), Whole(1))
    /\ Bonferroni(kwargs) >= 1
    /\ RatLt(Whole(0), SplitRatio(kwargs)) /\ RatLt(SplitRatio(kwargs), Whole(1))
TreatmentRateHolds ==
    LET p2 == RatAdd(p1, RatMul(p1, mde))
    IN  RatLt(Whole(0), p2) /\ RatLt(p2, Whole(1))

\* C1: a call of calculate_sample_size_relative in which any documented
\* constraint is violated (one of the six input constraints, or 0 < p2 < 1)
\* raises ValueError and returns no number.
C1_ValidationComplete ==
    (pc = "relative" /\ ~(SixConstraintsHold /\ TreatmentRateHolds))
        => (outcome.kind = "ValueError" /\ outcome.value = 0)

\* only the derived treatment rate is out of range, and the call was rejected
C1_Witness ==
    /\ pc = "relative"
    /\ SixConstraintsHold /\ ~TreatmentRateHolds
    /\ outcome.kind = "ValueError"

\* C2: an estimate, in either call form, returns a sample size or raises
\* ValueError; it never fails with any other error.
C2_OnlyValueError ==
    pc \in {"relative", "absolute"} => outcome.kind \in {"ok", "ValueError"}

\* C3: the estimate with split_ratio = t equals the estimate with
\* split_ratio = 1 - t, all other arguments equal.
C3_SplitSymmetry ==
    Returned =>
        outcome = WithSplit(RatSub(Whole(1), SplitRatio(kwargs)))

\* the term that is squared, for the state's arguments with c comparisons
TermAt(c) ==
    CriticalTerm(p1, TreatmentRate(p1, mde),
                 ZAlpha(Alpha(kwargs), TwoTailed(kwargs), c), ZPower(Power(kwargs)))

\* C4 as stated: for any valid arguments, a larger bonferroni_correction
\* never gives a smaller sample size.
C4_BonferroniMonotone ==
    Returned =>
        \A c \in Bonferroni(kwargs)..MaxBonferroni : outcome.value <= WithBonferroni(c).value

\* C4 as amended: when the term that is squared,
\* z_alpha*sqrt(2*p_bar*(1-p_bar)) + z_power*sqrt(p1*(1-p1) + p2*(1-p2)),
\* is not negative at the smaller bonferroni_correction, a larger
\* bonferroni_correction never gives a smaller sample size.
C4_BonferroniMonotoneNonNegTerm ==
    (Returned /\ RatLe(Whole(0), TermAt(Bonferroni(kwargs)))) =>
        \A c \in Bonferroni(kwargs)..MaxBonferroni : outcome.value <= WithBonferroni(c).value

\* one comparison needs strictly fewer observations than two
C4_Witness ==
    /\ Returned
    /\ RatLe(Whole(0), TermAt(Bonferroni(kwargs)))
    /\ Bonferroni(kwargs) = 1
    /\ outcome.value < WithBonferroni(2).value

SameSign(a, b) == (a[1] > 0 /\ b[1] > 0) \/ (a[1] < 0 /\ b[1] < 0)
Larger(a, b) == RatLt(<<Abs(a[1]), a[2]>>, <<Abs(b[1]), b[2]>>)

\* C5 as stated: a relative_mde of larger magnitude, of either sign, gives a
\* strictly smaller sample size.
C5_EffectStrictlyDecreasing ==
    Returned =>
        \A m \in MdeValues :
            (Larger(mde, m) /\ WithMde(m).kind = "ok") => outcome.value > WithMde(m).value

\* C5 as amended: when z_alpha >= 0 and z_power >= 0, a relative_mde of the
\* same sign and larger magnitude never gives a larger sample size.
C5_EffectDecreasingSameSign ==
    (/\ Returned
     /\ RatLe(Whole(0), ZAlpha(Alpha(kwargs), TwoTailed(kwargs), Bonferroni(kwargs)))
     /\ RatLe(Whole(0), ZPower(Power(kwargs)))) =>
        \A m \in MdeValues :
            (SameSign(mde, m) /\ Larger(mde, m) /\ WithMde(m).kind = "ok")
                => outcome.value >= WithMde(m).value

\* a larger effect of the same sign needs strictly fewer observations
C5_Witness ==
    /\ Returned
    /\ RatLe(Whole(0), ZAlpha(Alpha(kwargs), TwoTailed(kwargs), Bonferroni(kwargs)))
    /\ RatLe(Whole(0), ZPower(Power(kwargs)))
    /\ \E m \in MdeValues :
           /\ SameSign(mde, m) /\ Larger(mde, m) /\ WithMde(m).kind = "ok"
           /\ outcome.value > WithMde(m).value

\* C6: a successful estimate carries a confidence interval (lower, upper)
\* with 0 <= lower <= required_n <= upper.
C6_ConfidenceInterval ==
    Returned =>
        /\ "confidence_interval" \in DOMAIN outcome
        /\ 0 <= outcome.confidence_interval[1]
        /\ outcome.confidence_interval[1] <= outcome.value
        /\ outcome.value <= outcome.confidence_interval[2]

\* the value handed to math.ceil, for the state's arguments
StateRealN ==
    RealN(p1, mde, Alpha(kwargs), Power(kwargs), TwoTailed(kwargs), Bonferroni(kwargs),
          SplitRatio(kwargs))

\* C7: the returned sample size is the smallest integer not below the real
\* n of the formula after the split rescaling: required_n - 1 < n <= required_n.
C7_RoundUp ==
    Returned =>
        /\ RatLt(Whole(outcome.value - 1), StateRealN)
        /\ RatLe(StateRealN, Whole(outcome.value))

\* a rescaled n that is no integer was rounded up
C7_Witness ==
    /\ Returned
    /\ SplitRatio(kwargs) # Rat(1, 2)
    /\ StateRealN[2] # 1
    /\ RatLt(StateRealN, Whole(outcome.value))

\* C8: calculate_sample_size_absolute(p1, absolute_mde, kwargs) has the
\* outcome of calculate_sample_size_relative(p1, absolute_mde / p1, kwargs),
\* the division failing with ZeroDivisionError for p1 = 0.
C8_AbsoluteIsRelative ==
    pc = "absolute" =>
        IF p1[1] = 0 THEN outcome.kind = "ZeroDivisionError"
        ELSE outcome = WithMde(RatDiv(mde, p1))

\* an absolute MDE that differs from its relative form gave a sample size
C8_Witness ==
    /\ pc = "absolute"
    /\ outcome.kind = "ok"
    /\ p1 = Rat(1, 2)
    /\ mde = Rat(1, 10)
    /\ outcome = WithMde(Rat(1, 5))
    /\ outcome # WithMde(mde)

\* the outcome of the estimate for the i-th element of mde_list
Element(i) == CalculateFn(relative, p1, mde_list[i], kwargs)
Failing == {i \in 1..Len(mde_list) : Element(i).kind # "ok"}
FirstFailing == CHOOSE i \in Failing : \A j \in Failing : i <= j

\* C9: sample_size_plot computes one sample size per element of mde_list, the
\* i-th being the estimate for the i-th element; if the estimate fails for an
\* element the call fails with that error and no chart is shown.
C9_Series ==
    pc = "plot" =>
        IF Failing = {}
        THEN /\ outcome.kind = "ok"
             /\ fig.shown
             /\ fig.x = mde_list
             /\ Len(fig.per_variant) = Len(mde_list)
             /\ \A i \in 1..Len(mde_list) : fig.per_variant[i] = Element(i).value
        ELSE /\ outcome.kind = Element(FirstFailing).kind
             /\ outcome.msg = Element(FirstFailing).msg
             /\ ~fig.shown
             /\ fig.per_variant = <<>>

\* a chart of two different sample sizes, in the order of the list
C9_Witness ==
    /\ pc = "plot"
    /\ Len(mde_list) = 2
    /\ fig.shown
    /\ fig.per_variant = <<Element(1).value, Element(2).value>>
    /\ Element(1).value # Element(2).value

\* C10: at split_ratio = 0.5 the rescaling n * (1 + k) / (4 * k) leaves n
\* unchanged, so applying it gives the n of the path that skips it.
C10_IdentityAtHalf ==
    (Returned /\ SplitRatio(kwargs) = Rat(1, 2)) =>
        Rescale(EqualGroupsN(p1, TreatmentRate(p1, mde),
                             ZAlpha(Alpha(kwargs), TwoTailed(kwargs), Bonferroni(kwargs)),
                             ZPower(Power(kwargs))),
                Rat(1, 2)) = StateRealN

====
